---- MODULE Spec2Model ----
(***************************************************************************)
(* A model of cloudify_ansible/utils.py: the result reconciler             *)
(* (handle_result), the context-to-source translator                       *)
(* (get_source_config_from_ctx and its helpers), the source accumulator    *)
(* (update_sources_from_target, cleanup_sources_from_target,               *)
(* get_remerged_config_sources), private-key materialization               *)
(* (handle_key_data) and the environment shims (assign_environ,            *)
(* unassign_environ).                                                      *)
(*                                                                         *)
(* Python dicts are TLA+ functions whose DOMAIN is the set of keys.        *)
(* Python lists of host names are sets (only emptiness and membership are  *)
(* read by the code).                                                      *)
(***************************************************************************)
EXTENDS Integers, Sequences, FiniteSets, TLC

VARIABLES
    runtime_properties, \* instance id -> that instance's runtime-property dict
    topology,           \* the blueprint: nodes, instances, deployment groups
    call,               \* the operation that ran last, with its arguments
    outcome,            \* what that operation returned or raised
    history,            \* the names of the operations run so far
    trace,              \* the document each operation of history started from
    files,              \* the filesystem: path -> [content, mode]
    uuid_counter,       \* the number of uuid1() values drawn so far
    environ,            \* os.environ
    environ_before      \* os.environ as it was before assign_environ

vars == <<runtime_properties, topology, call, outcome, history, trace, files,
          uuid_counter, environ, environ_before>>

----------------------------------------------------------------------------
(* Python values *)

\* Python's None, kept apart from the empty dict.
None == [NoneType |-> TRUE]

EmptyDict == [k \in {} |-> None]

\* dict.get(k, default)
Get(d, k, default) == IF k \in DOMAIN d THEN d[k] ELSE default

\* d[k] = v
Put(d, k, v) == [x \in (DOMAIN d) \cup {k} |-> IF x = k THEN v ELSE d[x]]

\* isinstance(v, dict)
IsDict(v) == v # None

\* All dicts with keys among K and values among V.
Dicts(K, V) == UNION {[ks -> V] : ks \in SUBSET K}

----------------------------------------------------------------------------
(* Constants of the plugin *)

NODE_INSTANCE == "node-instance"
RELATIONSHIP_INSTANCE == "relationship-instance"
SOURCES == "sources"
HOSTS == "hosts"
WORKSPACE == "workspace"
RESULT == "result"
COMPUTE == "cloudify.nodes.Compute"
KEY_FILE == "ansible_ssh_private_key_file"

\* What an operation raised.
NoError == "None"
NonRecoverableError == "NonRecoverableError"
OperationRetry == "OperationRetry"

\* The state of the variables an operation does not use.
Unused == "unused"

----------------------------------------------------------------------------
(* Contexts *)

\* An operation context of a node instance.
NodeCtx(node, instance) ==
    [type |-> NODE_INSTANCE, node |-> node, instance |-> instance]

\* An operation context of a relationship instance.
RelationshipCtx(snode, sinstance, tnode, tinstance) ==
    [type |-> RELATIONSHIP_INSTANCE,
     source |-> [node |-> snode, instance |-> sinstance],
     target |-> [node |-> tnode, instance |-> tinstance]]

\* _get_instance: the id of the instance that owns the persisted state.
get_instance(_ctx) ==
    IF _ctx.type = RELATIONSHIP_INSTANCE
    THEN _ctx.source.instance
    ELSE _ctx.instance

\* _get_node: the name of the node on the owning side.
get_node(_ctx) ==
    IF _ctx.type = RELATIONSHIP_INSTANCE
    THEN _ctx.source.node
    ELSE _ctx.node

----------------------------------------------------------------------------
(* Names drawn for hosts, groups and instances *)

\* Host names of an inventory (instance ids and hostname overrides).
HostNames == {"vm_1", "db_1"}

\* Group names of an inventory (node types, group_name overrides and
\* deployment group names).
GroupNames == {"webservers", "custom.Server"}

----------------------------------------------------------------------------
(* Result reconciler: handle_result *)

\* The instances of the reconciler's contexts.
ResultInstances == {"app_1", "vm_1"}

\* The contexts handle_result is called with.
ResultContexts ==
    {NodeCtx("app", "app_1"), NodeCtx("vm", "vm_1"),
     RelationshipCtx("app", "app_1", "vm", "vm_1")}

\* The structured results of a playbook run: 'failures' and 'dark' are lists
\* of host names; either key may be missing.
ResultPayloads == Dicts({"failures", "dark"}, SUBSET HostNames)

\* result.get(key): a missing key gives None, which is as falsy as [].
ResultList(result, key) == Get(result, key, {})

\* A mutation of handle_result: the result is stored after the two checks,
\* so only a normal return stores it.
handle_result_store_last(result, _ctx, ignore_failures, ignore_dark, rp) ==
    LET failures == ResultList(result, "failures")
        dark == ResultList(result, "dark")
    IN  IF failures # {} /\ ~ignore_failures
        THEN [runtime_properties |-> rp,
              raised |-> NonRecoverableError, args |-> failures]
        ELSE IF dark # {} /\ ~ignore_dark
        THEN [runtime_properties |-> rp,
              raised |-> OperationRetry, args |-> dark]
        ELSE [runtime_properties |->
                  [rp EXCEPT ![get_instance(_ctx)] = Put(@, RESULT, result)],
              raised |-> NoError, args |-> {}]

\* A mutation of handle_result: the dark hosts are checked before the
\* failures.
handle_result_dark_first(result, _ctx, ignore_failures, ignore_dark, rp) ==
    LET stored == [rp EXCEPT ![get_instance(_ctx)] = Put(@, RESULT, result)]
        failures == ResultList(result, "failures")
        dark == ResultList(result, "dark")
    IN  IF dark # {} /\ ~ignore_dark
        THEN [runtime_properties |-> stored,
              raised |-> OperationRetry, args |-> dark]
        ELSE IF failures # {} /\ ~ignore_failures
        THEN [runtime_properties |-> stored,
              raised |-> NonRecoverableError, args |-> failures]
        ELSE [runtime_properties |-> stored, raised |-> NoError, args |-> {}]

\* A mutation of handle_result: the dark hosts are checked only when the
\* result has no failures at all.
handle_result_nested(result, _ctx, ignore_failures, ignore_dark, rp) ==
    LET stored == [rp EXCEPT ![get_instance(_ctx)] = Put(@, RESULT, result)]
        failures == ResultList(result, "failures")
        dark == ResultList(result, "dark")
    IN  IF failures # {}
        THEN IF ~ignore_failures
             THEN [runtime_properties |-> stored,
                   raised |-> NonRecoverableError, args |-> failures]
             ELSE [runtime_properties |-> stored,
                   raised |-> NoError, args |-> {}]
        ELSE IF dark # {} /\ ~ignore_dark
        THEN [runtime_properties |-> stored,
              raised |-> OperationRetry, args |-> dark]
        ELSE [runtime_properties |-> stored, raised |-> NoError, args |-> {}]

\* handle_result(result, _ctx, ignore_failures, ignore_dark) on the store rp:
\* the store it leaves and the exception it raises.
handle_result(result, _ctx, ignore_failures, ignore_dark, rp) ==
    LET stored == [rp EXCEPT ![get_instance(_ctx)] = Put(@, RESULT, result)]
        failures == ResultList(result, "failures")
        dark == ResultList(result, "dark")
    IN  IF failures # {} /\ ~ignore_failures
        THEN [runtime_properties |-> stored,
              raised |-> NonRecoverableError, args |-> failures]
        ELSE IF dark # {} /\ ~ignore_dark
        THEN [runtime_properties |-> stored,
              raised |-> OperationRetry, args |-> dark]
        ELSE [runtime_properties |-> stored, raised |-> NoError, args |-> {}]

\* A lifecycle operation hands a playbook result to handle_result.
HandleResult(_ctx, result, ignore_failures, ignore_dark) ==
    LET r == handle_result(result, _ctx, ignore_failures, ignore_dark,
                           runtime_properties)
    IN  /\ runtime_properties' = r.runtime_properties
        /\ call' = [op |-> "handle_result", ctx |-> _ctx, result |-> result,
                    ignore_failures |-> ignore_failures,
                    ignore_dark |-> ignore_dark]
        /\ outcome' = [raised |-> r.raised, args |-> r.args]
        /\ UNCHANGED <<topology, history, trace, files, uuid_counter,
                       environ, environ_before>>

InitResult ==
    /\ runtime_properties = [i \in ResultInstances |-> EmptyDict]
    /\ call = [op |-> "init"]
    /\ outcome = [raised |-> NoError, args |-> {}]
    /\ topology = Unused
    /\ history = <<>>
    /\ trace = <<>>
    /\ files = Unused
    /\ uuid_counter = 0
    /\ environ = Unused
    /\ environ_before = Unused

NextResult ==
    \E _ctx \in ResultContexts, result \in ResultPayloads,
       ignore_failures \in BOOLEAN, ignore_dark \in BOOLEAN :
        HandleResult(_ctx, result, ignore_failures, ignore_dark)

SpecResult == InitResult /\ [][NextResult]_vars

\* handle_result has run.
ResultHandled == call.op = "handle_result"

\* The failures of the call are not suppressed.
FailuresCount ==
    ResultList(call.result, "failures") # {} /\ ~call.ignore_failures

\* The dark hosts of the call are not suppressed.
DarkCount == ResultList(call.result, "dark") # {} /\ ~call.ignore_dark

\* C1: a result with failures and ignore_failures false raises the
\* non-recoverable error naming the failed hosts, never the retry signal,
\* whatever 'dark' and ignore_dark are.
C1_FailuresRaiseNonRecoverable ==
    (ResultHandled /\ FailuresCount) =>
        /\ outcome.raised = NonRecoverableError
        /\ outcome.args = call.result["failures"]

\* C1 witness: failures and dark hosts together, neither suppressed, and the
\* non-recoverable error was raised.
C1_Witness ==
    /\ ResultHandled /\ FailuresCount /\ DarkCount
    /\ outcome.raised = NonRecoverableError

\* C2: dark hosts, not suppressed, with failures empty or suppressed raise
\* the retry signal; with the dark hosts suppressed too the call returns.
C2_DarkRaisesRetry ==
    (ResultHandled /\ ~FailuresCount) =>
        /\ DarkCount =>
            /\ outcome.raised = OperationRetry
            /\ outcome.args = call.result["dark"]
        /\ ~DarkCount => outcome.raised = NoError

\* C2 witness: failures and dark hosts together, the failures ignored, the
\* dark hosts not, and the retry signal was raised.
C2_Witness ==
    /\ ResultHandled /\ DarkCount
    /\ ResultList(call.result, "failures") # {} /\ call.ignore_failures
    /\ outcome.raised = OperationRetry

\* C3: whatever handle_result returned or raised, the full result is stored
\* under 'result' of the owning instance (the source side of a relationship,
\* the instance itself of a node).
C3_ResultStoredInEveryOutcome ==
    ResultHandled =>
        LET owner == IF call.ctx.type = RELATIONSHIP_INSTANCE
                     THEN call.ctx.source.instance
                     ELSE call.ctx.instance
        IN  /\ RESULT \in DOMAIN runtime_properties[owner]
            /\ runtime_properties[owner][RESULT] = call.result

\* C3 witness: a relationship context whose call raised, with the result on
\* the source instance and not on the target instance.
C3_Witness ==
    /\ ResultHandled
    /\ call.ctx.type = RELATIONSHIP_INSTANCE
    /\ outcome.raised = NonRecoverableError
    /\ Get(runtime_properties[call.ctx.source.instance], RESULT, None)
           = call.result
    /\ RESULT \notin DOMAIN runtime_properties[call.ctx.target.instance]

----------------------------------------------------------------------------
(* Environment shims: assign_environ, unassign_environ *)

EnvKeys == {"ANSIBLE_CONFIG", "ANSIBLE_HOST_KEY_CHECKING"}
EnvValues == {"a", "b"}

\* The process environments and the caller-supplied variable maps.
Environments == Dicts(EnvKeys, EnvValues)

\* assign_environ(_vars) on the environment env.
assign_environ(_vars, env) ==
    [k \in (DOMAIN env) \cup (DOMAIN _vars) |->
        IF k \in DOMAIN _vars THEN _vars[k] ELSE env[k]]

\* unassign_environ(_vars) on the environment env, every key of _vars set
\* in env.
unassign_environ(_vars, env) ==
    [k \in (DOMAIN env) \ (DOMAIN _vars) |-> env[k]]

\* A playbook run starts: the caller's variables are injected.
AssignEnviron(_vars) ==
    /\ call.op \in {"init", "unassign_environ"}
    /\ environ_before' = environ
    /\ environ' = assign_environ(_vars, environ)
    /\ call' = [op |-> "assign_environ", vars |-> _vars]
    /\ UNCHANGED <<runtime_properties, topology, outcome, history,
                   trace, files, uuid_counter>>

\* The playbook run is over: the same variables are removed.
UnassignEnviron ==
    /\ call.op = "assign_environ"
    /\ environ' = unassign_environ(call.vars, environ)
    /\ call' = [op |-> "unassign_environ", vars |-> call.vars]
    /\ UNCHANGED <<runtime_properties, topology, outcome, history,
                   trace, files, uuid_counter, environ_before>>

InitEnviron ==
    /\ environ \in Environments
    /\ environ_before = environ
    /\ call = [op |-> "init"]
    /\ runtime_properties = Unused
    /\ topology = Unused
    /\ outcome = Unused
    /\ history = <<>>
    /\ trace = <<>>
    /\ files = Unused
    /\ uuid_counter = 0

NextEnviron ==
    \/ \E _vars \in Environments : AssignEnviron(_vars)
    \/ UnassignEnviron

SpecEnviron == InitEnviron /\ [][NextEnviron]_vars

\* C9: after assign_environ(V) and unassign_environ(V) the environment is
\* the environment before the pair, also when a key of V was set before.
C9_EnvironRestored ==
    call.op = "unassign_environ" => environ = environ_before

----------------------------------------------------------------------------
(* Private-key materialization: handle_key_data *)

\* Bound: the number of handle_key_data calls on one document.
MaxKeyCalls == 3

\* The workspace directory of the instance (mkdtemp()).
WorkspaceDir == "/tmp/tmpws"

\* A key file that is on the system before the plugin runs.
SystemKeyPath == "/etc/ansible/key.pem"

\* The values of ansible_ssh_private_key_file: inline key material, or the
\* path of a file.
KeyValues == {"-----BEGIN KEY A-----", "-----BEGIN KEY B-----", SystemKeyPath}

\* The permission bits os.chmod sets, and those open() leaves.
OwnerReadWrite == "0o600"

\* The host entries of the documents: a null entry, variables without a key,
\* variables with a key.
KeyHostVars ==
    {None, [ansible_host |-> "10.0.0.5"]}
    \cup {[ansible_host |-> "10.0.0.5", ansible_ssh_private_key_file |-> v] :
            v \in KeyValues}

\* The source documents handle_key_data is given.
KeyDocuments ==
    Dicts(GroupNames, {[hosts |-> hm] : hm \in Dicts(HostNames, KeyHostVars)})

\* str(uuid1()): the n-th value drawn, distinct from every other.
uuid1(n) == "uuid-" \o ToString(n)

\* os.path.join(dir, name)
path_join(dir, name) == dir \o "/" \o name

\* os.path.exists(path) on the filesystem fs.
path_exists(path, fs) == path \in DOMAIN fs

\* A mutation of recurse_dictionary: the value is written to a new file
\* without asking whether it already is the path of a file.
recurse_dictionary_no_check(existing_dict, workspace_dir, fs, n) ==
    IF ~IsDict(existing_dict) \/ KEY_FILE \notin DOMAIN existing_dict
    THEN [dict |-> existing_dict, files |-> fs, uuid_counter |-> n]
    ELSE LET private_key_file == path_join(workspace_dir, uuid1(n + 1))
         IN  [dict |-> Put(existing_dict, KEY_FILE, private_key_file),
              files |-> Put(fs, private_key_file,
                            [content |-> existing_dict[KEY_FILE],
                             mode |-> OwnerReadWrite]),
              uuid_counter |-> n + 1]

\* recurse_dictionary on the variables of one host: a dict that holds the key
\* and whose value is not the path of a file gets the value written to a new
\* file of the workspace and replaced by that file's path. None is no dict
\* and a dict without the key holds no dict to descend into.
recurse_dictionary(existing_dict, workspace_dir, fs, n) ==
    IF ~IsDict(existing_dict) \/ KEY_FILE \notin DOMAIN existing_dict
    THEN [dict |-> existing_dict, files |-> fs, uuid_counter |-> n]
    ELSE IF path_exists(existing_dict[KEY_FILE], fs)
    THEN [dict |-> existing_dict, files |-> fs, uuid_counter |-> n]
    ELSE LET private_key_file == path_join(workspace_dir, uuid1(n + 1))
         IN  [dict |-> Put(existing_dict, KEY_FILE, private_key_file),
              files |-> Put(fs, private_key_file,
                            [content |-> existing_dict[KEY_FILE],
                             mode |-> OwnerReadWrite]),
              uuid_counter |-> n + 1]

\* The host entries of a document, as <<group, host>> pairs.
HostEntries(d) ==
    {e \in (DOMAIN d) \X HostNames : e[2] \in DOMAIN d[e[1]][HOSTS]}

\* The descent of recurse_dictionary through the groups and their 'hosts'
\* dicts (none of which holds the key), one host entry after the other.
RECURSIVE recurse_entries(_, _, _, _, _)
recurse_entries(todo, d, workspace_dir, fs, n) ==
    IF todo = {}
    THEN [data |-> d, files |-> fs, uuid_counter |-> n]
    ELSE LET e == CHOOSE x \in todo : TRUE
             r == recurse_dictionary(d[e[1]][HOSTS][e[2]], workspace_dir,
                                     fs, n)
         IN  recurse_entries(todo \ {e},
                             [d EXCEPT ![e[1]][HOSTS][e[2]] = r.dict],
                             workspace_dir, r.files, r.uuid_counter)

\* handle_key_data(_data, workspace_dir) on the filesystem fs.
handle_key_data(_data, workspace_dir, fs, n) ==
    recurse_entries(HostEntries(_data), _data, workspace_dir, fs, n)

\* handle_sources materializes the keys of the hosts dict it was given.
HandleKeyData ==
    /\ Len(history) < MaxKeyCalls
    /\ LET r == handle_key_data(call.data, WorkspaceDir, files, uuid_counter)
       IN  /\ call' = [op |-> "handle_key_data", data |-> r.data]
           /\ files' = r.files
           /\ uuid_counter' = r.uuid_counter
           /\ outcome' = [created |-> (DOMAIN r.files) \ (DOMAIN files)]
    /\ trace' = Append(trace, call.data)
    /\ history' = Append(history, "handle_key_data")
    /\ UNCHANGED <<runtime_properties, topology, environ, environ_before>>

InitKey ==
    /\ call \in {[op |-> "init", data |-> d] : d \in KeyDocuments}
    /\ files = [p \in {SystemKeyPath} |->
                   [content |-> "-----BEGIN KEY S-----",
                    mode |-> OwnerReadWrite]]
    /\ uuid_counter = 0
    /\ outcome = [created |-> {}]
    /\ trace = <<>>
    /\ history = <<>>
    /\ runtime_properties = Unused
    /\ topology = Unused
    /\ environ = Unused
    /\ environ_before = Unused

NextKey == HandleKeyData

SpecKey == InitKey /\ [][NextKey]_vars

\* The host entries of document d whose key value is not the path of a file
\* of the filesystem fs: inline key material.
InlineEntries(d, fs) ==
    {e \in HostEntries(d) :
        /\ IsDict(d[e[1]][HOSTS][e[2]])
        /\ KEY_FILE \in DOMAIN d[e[1]][HOSTS][e[2]]
        /\ ~path_exists(d[e[1]][HOSTS][e[2]][KEY_FILE], fs)}

\* The filesystem before the last handle_key_data call.
FilesBefore == [p \in (DOMAIN files) \ outcome.created |-> files[p]]

\* C8: the first handle_key_data call creates exactly one new file per host
\* entry that carries inline key material, in the workspace, owner-only
\* read/write, holding the key, and replaces the inline value by that file's
\* path, leaving every other entry as it was; every later call creates no
\* file and leaves the document unchanged.
C8_KeyMaterializedOnce ==
    call.op = "handle_key_data" =>
        LET before == trace[Len(trace)]
            after == call.data
            inline == InlineEntries(before, FilesBefore)
        IN  /\ Len(history) = 1 =>
                /\ Cardinality(outcome.created) = Cardinality(inline)
                /\ HostEntries(after) = HostEntries(before)
                /\ \A e \in inline :
                    LET path == after[e[1]][HOSTS][e[2]][KEY_FILE]
                    IN  /\ path \in outcome.created
                        /\ files[path] =
                            [content |-> before[e[1]][HOSTS][e[2]][KEY_FILE],
                             mode |-> OwnerReadWrite]
                        /\ \A f \in inline :
                            after[f[1]][HOSTS][f[2]][KEY_FILE] = path
                                => f = e
                /\ \A e \in HostEntries(before) \ inline :
                    after[e[1]][HOSTS][e[2]] = before[e[1]][HOSTS][e[2]]
            /\ Len(history) > 1 =>
                /\ outcome.created = {}
                /\ after = before

\* C8 witness: a second call on a document whose first call materialized the
\* key of one host entry: one file in the workspace, no further file.
C8_Witness ==
    /\ call.op = "handle_key_data"
    /\ Len(history) = 2
    /\ uuid_counter = 1
    /\ outcome.created = {}
    /\ \E e \in HostEntries(call.data) :
        /\ IsDict(call.data[e[1]][HOSTS][e[2]])
        /\ KEY_FILE \in DOMAIN call.data[e[1]][HOSTS][e[2]]
        /\ call.data[e[1]][HOSTS][e[2]][KEY_FILE]
               = path_join(WorkspaceDir, uuid1(1))

----------------------------------------------------------------------------
(* Source documents: AnsibleSource *)

\* AnsibleSource(source_dict).config: the document as groups, each a record
\* with its 'hosts' mapping (an absent mapping is an empty one).
AnsibleSource(source_dict) ==
    [g \in DOMAIN source_dict |->
        [hosts |-> Get(source_dict[g], HOSTS, EmptyDict)]]

\* A mutation of merge_source: in a group both documents hold, a host that
\* is already listed is dropped instead of overwritten.
merge_source_drops_listed(self, other) ==
    [g \in (DOMAIN self) \cup (DOMAIN other) |->
        IF g \notin DOMAIN other THEN self[g]
        ELSE IF g \notin DOMAIN self THEN other[g]
        ELSE [hosts |->
                [h \in ((DOMAIN self[g].hosts) \cup (DOMAIN other[g].hosts))
                        \ ((DOMAIN self[g].hosts) \cap (DOMAIN other[g].hosts))
                    |-> IF h \in DOMAIN other[g].hosts
                        THEN other[g].hosts[h]
                        ELSE self[g].hosts[h]]]]

\* self.merge_source(other): a group of other that self lacks is inserted
\* verbatim; in a group both hold the hosts mappings are united, the entries
\* of other overwriting those of self.
merge_source(self, other) ==
    [g \in (DOMAIN self) \cup (DOMAIN other) |->
        IF g \notin DOMAIN other THEN self[g]
        ELSE IF g \notin DOMAIN self THEN other[g]
        ELSE [hosts |->
                [h \in (DOMAIN self[g].hosts) \cup (DOMAIN other[g].hosts) |->
                    IF h \in DOMAIN other[g].hosts
                    THEN other[g].hosts[h]
                    ELSE self[g].hosts[h]]]]

\* self.remove_source(other): from every group of other that self holds, the
\* host keys other lists are removed; a group left empty stays.
remove_source(self, other) ==
    [g \in DOMAIN self |->
        IF g \notin DOMAIN other THEN self[g]
        ELSE [hosts |->
                [h \in (DOMAIN self[g].hosts) \ (DOMAIN other[g].hosts) |->
                    self[g].hosts[h]]]]

----------------------------------------------------------------------------
(* Source accumulator *)

\* The persisted sources document of an instance, {} when there is none.
PersistedSources(rp, instance) == Get(rp[instance], SOURCES, EmptyDict)

\* A mutation of update_sources_from_target: the merge starts from an empty
\* document instead of the persisted one.
update_sources_from_target_no_read(new_sources_dict, _ctx, rp) ==
    LET config == merge_source(AnsibleSource(EmptyDict),
                               AnsibleSource(new_sources_dict))
    IN  [runtime_properties |->
            [rp EXCEPT ![_ctx.source.instance] = Put(@, SOURCES, config)],
         returned |-> config]

\* update_sources_from_target(new_sources_dict, _ctx) on the store rp.
update_sources_from_target(new_sources_dict, _ctx, rp) ==
    LET current_sources_dict == PersistedSources(rp, _ctx.source.instance)
        config == merge_source(AnsibleSource(current_sources_dict),
                               AnsibleSource(new_sources_dict))
    IN  [runtime_properties |->
            [rp EXCEPT ![_ctx.source.instance] = Put(@, SOURCES, config)],
         returned |-> config]

\* A mutation of cleanup_sources_from_target: the fragment is merged, as in
\* update_sources_from_target, instead of removed.
cleanup_sources_from_target_merges(new_sources_dict, _ctx, rp) ==
    update_sources_from_target(new_sources_dict, _ctx, rp)

\* cleanup_sources_from_target(new_sources_dict, _ctx) on the store rp.
cleanup_sources_from_target(new_sources_dict, _ctx, rp) ==
    LET current_sources_dict == PersistedSources(rp, _ctx.source.instance)
        config == remove_source(AnsibleSource(current_sources_dict),
                                AnsibleSource(new_sources_dict))
    IN  [runtime_properties |->
            [rp EXCEPT ![_ctx.source.instance] = Put(@, SOURCES, config)],
         returned |-> config]

----------------------------------------------------------------------------
(* Merge and subtraction of arbitrary documents *)

\* Bound: the number of accumulator operations in one behaviour.
MaxSourceOps == 3

\* The host entries of the documents: a null entry or host variables.
MergeHostVars == {None, [ansible_host |-> "10.0.0.5"]}

\* The source documents A (persisted) and B (the fragment).
MergeDocuments ==
    Dicts(GroupNames, {[hosts |-> hm] : hm \in Dicts(HostNames, MergeHostVars)})

\* The instances of the accumulator's store.
SourceInstances == {"app_1", "vm_1", "db_1"}

\* The relationship whose fragment is merged and removed.
MergeCtx == RelationshipCtx("app", "app_1", "vm", "vm_1")

\* The relationship-establish operation merges the fragment.
UpdateSourcesFromTarget ==
    /\ Len(history) < MaxSourceOps
    /\ LET r == update_sources_from_target(call.new_sources_dict, MergeCtx,
                                           runtime_properties)
       IN  /\ runtime_properties' = r.runtime_properties
           /\ outcome' = [raised |-> NoError, returned |-> r.returned]
    /\ call' = [call EXCEPT !.op = "update_sources_from_target"]
    /\ history' = Append(history, "update_sources_from_target")
    /\ trace' = Append(trace, PersistedSources(runtime_properties, "app_1"))
    /\ UNCHANGED <<topology, files, uuid_counter, environ, environ_before>>

\* The relationship-unlink operation removes the fragment.
CleanupSourcesFromTarget ==
    /\ Len(history) < MaxSourceOps
    /\ LET r == cleanup_sources_from_target(call.new_sources_dict, MergeCtx,
                                            runtime_properties)
       IN  /\ runtime_properties' = r.runtime_properties
           /\ outcome' = [raised |-> NoError, returned |-> r.returned]
    /\ call' = [call EXCEPT !.op = "cleanup_sources_from_target"]
    /\ history' = Append(history, "cleanup_sources_from_target")
    /\ trace' = Append(trace, PersistedSources(runtime_properties, "app_1"))
    /\ UNCHANGED <<topology, files, uuid_counter, environ, environ_before>>

\* The source instance holds any document A, or none; the fragment is any
\* document B.
InitMerge ==
    /\ \E persisted \in {EmptyDict} \cup
                        {[sources |-> a] : a \in MergeDocuments} :
        runtime_properties =
            [i \in SourceInstances |->
                IF i = "app_1" THEN persisted ELSE EmptyDict]
    /\ call \in {[op |-> "init", new_sources_dict |-> b] :
                    b \in MergeDocuments}
    /\ outcome = [raised |-> NoError, returned |-> EmptyDict]
    /\ history = <<>>
    /\ trace = <<>>
    /\ topology = Unused
    /\ files = Unused
    /\ uuid_counter = 0
    /\ environ = Unused
    /\ environ_before = Unused

NextMerge ==
    \/ UpdateSourcesFromTarget
    \/ CleanupSourcesFromTarget

SpecMerge == InitMerge /\ [][NextMerge]_vars

\* The last two operations of the history.
LastTwo(first, second) ==
    /\ Len(history) >= 2
    /\ history[Len(history) - 1] = first
    /\ history[Len(history)] = second

\* The document the source instance holds now.
SourcesNow == PersistedSources(runtime_properties, "app_1")

\* C4: merging the same fragment a second time leaves the persisted
\* document as the first merge left it:
\* merge(merge(A, B), B) = merge(A, B).
C4_MergeIdempotent ==
    LastTwo("update_sources_from_target", "update_sources_from_target") =>
        SourcesNow = trace[Len(trace)]

\* C4 witness: the fragment merged twice into a document that shares a
\* group with it, where the first merge overwrote a host entry and added
\* another.
C4_Witness ==
    /\ LastTwo("update_sources_from_target", "update_sources_from_target")
    /\ Len(history) = 2
    /\ \E g \in (DOMAIN trace[1]) \cap (DOMAIN call.new_sources_dict) :
        /\ \E h \in (DOMAIN trace[1][g].hosts)
                        \cap (DOMAIN call.new_sources_dict[g].hosts) :
            trace[1][g].hosts[h] # call.new_sources_dict[g].hosts[h]
        /\ (DOMAIN call.new_sources_dict[g].hosts)
               \ (DOMAIN trace[1][g].hosts) # {}
    /\ SourcesNow # trace[1]

\* The hosts of group g in document d, none when d lacks the group.
HostsOf(d, g) == IF g \in DOMAIN d THEN DOMAIN d[g].hosts ELSE {}

\* Document r is document a without the host keys document b lists: every
\* group of a is a group of r, with the hosts of a that b does not list in
\* that group and with their entries as in a.
RemovedExactly(r, a, b) ==
    \A g \in DOMAIN a :
        /\ g \in DOMAIN r
        /\ DOMAIN r[g].hosts = (DOMAIN a[g].hosts) \ HostsOf(b, g)
        /\ \A h \in DOMAIN r[g].hosts : r[g].hosts[h] = a[g].hosts[h]

\* C5: removing fragment B after merging it removes exactly the host keys B
\* lists from the groups of A and leaves every other group and host entry
\* of A as it was (a group only B brought stays, with no host); removing a
\* fragment from a document that lacks its groups or hosts changes nothing
\* there and raises nothing.
C5_SubtractAfterMerge ==
    /\ LastTwo("update_sources_from_target", "cleanup_sources_from_target") =>
        LET a == trace[Len(trace) - 1]
            b == call.new_sources_dict
        IN  /\ RemovedExactly(SourcesNow, a, b)
            /\ \A g \in (DOMAIN SourcesNow) \ (DOMAIN a) :
                g \in DOMAIN b /\ DOMAIN SourcesNow[g].hosts = {}
    /\ (Len(history) >= 1
            /\ history[Len(history)] = "cleanup_sources_from_target") =>
        /\ outcome.raised = NoError
        /\ DOMAIN SourcesNow = DOMAIN trace[Len(trace)]
        /\ RemovedExactly(SourcesNow, trace[Len(trace)],
                          call.new_sources_dict)

\* C5 witness: a fragment merged and then removed, where A holds a host the
\* fragment lists and, in the same group, one it does not list, which is
\* what the document holds afterwards.
C5_Witness ==
    /\ LastTwo("update_sources_from_target", "cleanup_sources_from_target")
    /\ Len(history) = 2
    /\ \E g \in (DOMAIN trace[1]) \cap (DOMAIN call.new_sources_dict) :
        /\ (DOMAIN trace[1][g].hosts)
               \cap (DOMAIN call.new_sources_dict[g].hosts) # {}
        /\ (DOMAIN trace[1][g].hosts)
               \ (DOMAIN call.new_sources_dict[g].hosts) # {}
        /\ DOMAIN SourcesNow[g].hosts =
               (DOMAIN trace[1][g].hosts)
                   \ (DOMAIN call.new_sources_dict[g].hosts)
    /\ (DOMAIN call.new_sources_dict) \ (DOMAIN trace[1]) # {}

----------------------------------------------------------------------------
(* Topology: nodes, their types and properties, deployment groups *)

\* Python's None where the model holds a string.
NoneStr == "None"

\* No caller override: None and '' are both falsy.
NoName == ""

NodeNames == {"app", "vm", "db"}

\* The node types of the blueprints: one derived from cloudify.nodes.Compute
\* and one that is not.
NodeTypes == {"custom.Server", "custom.App"}

\* node.type_hierarchy of a node of the given type.
TypeHierarchy(type) ==
    IF type = "custom.Server"
    THEN {"cloudify.nodes.Root", COMPUTE, "custom.Server"}
    ELSE {"cloudify.nodes.Root", type}

\* node.properties of the nodes.
NodeProperties(name) ==
    CASE name = "vm" ->
            [ip |-> "10.0.0.5",
             agent_config |-> [user |-> "ubuntu",
                               key |-> "-----BEGIN KEY A-----"]]
      [] name = "db" ->
            [ip |-> "10.0.0.6",
             agent_config |-> [user |-> "centos", password |-> "secret"]]
      [] OTHER -> EmptyDict

\* A node of the blueprint.
Node(name, type) ==
    [name |-> name, type |-> type, type_hierarchy |-> TypeHierarchy(type),
     properties |-> NodeProperties(name)]

\* The names the deployment groups can have: one a caller uses as
\* group_name, one that is a node type.
DeploymentGroupNames == {"webservers", "custom.Server"}

\* The deployment's groups over the member nodes M, as the REST client
\* returns them.
DeploymentGroups(names, M) ==
    Dicts(names, {[members |-> m] : m \in SUBSET M})

----------------------------------------------------------------------------
(* Context-to-source translator *)

\* get_host_config_from_compute_node(_ctx): _ctx is a node context or the
\* target side of a relationship context.
get_host_config_from_compute_node(_ctx, topo, rp) ==
    LET properties == topo.nodes[_ctx.node].properties
        agent_config == Get(properties, "agent_config", EmptyDict)
    IN  [ansible_host |-> Get(rp[_ctx.instance], "ip",
                              Get(properties, "ip", NoneStr)),
         ansible_user |-> Get(agent_config, "user", NoneStr),
         ansible_ssh_pass |-> Get(agent_config, "password", NoneStr),
         ansible_ssh_private_key_file |-> Get(agent_config, "key", NoneStr),
         ansible_ssh_common_args |-> "-o StrictHostKeyChecking=no",
         ansible_become |-> Get(properties, "ansible_become", TRUE)]

\* A mutation of get_group_name_and_hostname: the error is raised as soon as
\* one of the two names is missing.
get_group_name_and_hostname_either(_ctx, group_name, hostname, topo) ==
    IF (group_name = NoName \/ hostname = NoName)
       /\ COMPUTE \notin topo.nodes[_ctx.node].type_hierarchy
    THEN [raised |-> NonRecoverableError,
          group_name |-> NoName, hostname |-> NoName]
    ELSE [raised |-> NoError,
          group_name |-> IF group_name # NoName THEN group_name
                         ELSE topo.nodes[_ctx.node].type,
          hostname |-> IF hostname # NoName THEN hostname
                       ELSE _ctx.instance]

\* get_group_name_and_hostname(_ctx, group_name, hostname)
get_group_name_and_hostname(_ctx, group_name, hostname, topo) ==
    IF group_name = NoName /\ hostname = NoName
       /\ COMPUTE \notin topo.nodes[_ctx.node].type_hierarchy
    THEN [raised |-> NonRecoverableError,
          group_name |-> NoName, hostname |-> NoName]
    ELSE [raised |-> NoError,
          group_name |-> IF group_name # NoName THEN group_name
                         ELSE topo.nodes[_ctx.node].type,
          hostname |-> IF hostname # NoName THEN hostname
                       ELSE _ctx.instance]

\* get_additional_node_groups(node_name, deployment_id): no group when there
\* is no REST client, else the named groups that list the node as a member.
get_additional_node_groups(node_name, topo) ==
    IF ~topo.rest_client
    THEN {}
    ELSE {group_name \in DOMAIN topo.groups :
            /\ node_name \in Get(topo.groups[group_name], "members", {})
            /\ group_name # NoName}

\* The document get_source_config_from_ctx assembles: sources[group_name] is
\* set first, then sources[additional_group] for every additional group.
AssembleSources(sources, group_name, hostname, host_config, additional) ==
    [g \in (DOMAIN sources) \cup {group_name} \cup additional |->
        IF g \in additional THEN [hosts |-> (hostname :> None)]
        ELSE IF g = group_name THEN [hosts |-> (hostname :> host_config)]
        ELSE sources[g]]

\* get_source_config_from_ctx(_ctx, group_name, hostname, host_config,
\* sources): what it raises, the document it returns, and the names and host
\* configuration it resolved when it derived the document.
get_source_config_from_ctx(_ctx, group_name, hostname, host_config, sources, topo, rp) ==
    IF /\ _ctx.type = NODE_INSTANCE
       /\ COMPUTE \notin topo.nodes[_ctx.node].type_hierarchy
       /\ Get(rp[_ctx.instance], SOURCES, EmptyDict) # EmptyDict
    THEN [raised |-> NoError, derived |-> FALSE,
          returned |-> AnsibleSource(rp[_ctx.instance][SOURCES]),
          group_name |-> NoName, hostname |-> NoName,
          host_config |-> EmptyDict]
    ELSE LET view == IF _ctx.type = RELATIONSHIP_INSTANCE
                     THEN _ctx.target
                     ELSE _ctx
             node_name == IF _ctx.type = RELATIONSHIP_INSTANCE
                          THEN _ctx.target.node
                          ELSE get_node(_ctx)
             config == IF host_config # EmptyDict
                       THEN host_config
                       ELSE get_host_config_from_compute_node(view, topo, rp)
             names == get_group_name_and_hostname(view, group_name, hostname,
                                                  topo)
             additional_node_groups ==
                 get_additional_node_groups(node_name, topo)
         IN  IF names.raised # NoError
             THEN [raised |-> names.raised, derived |-> FALSE,
                   returned |-> EmptyDict,
                   group_name |-> NoName, hostname |-> NoName,
                   host_config |-> EmptyDict]
             ELSE [raised |-> NoError, derived |-> TRUE,
                   returned |->
                       AnsibleSource(
                           AssembleSources(sources, names.group_name,
                                           names.hostname, config,
                                           additional_node_groups)),
                   group_name |-> names.group_name,
                   hostname |-> names.hostname,
                   host_config |-> config]

\* The caller's overrides.
GroupNameOverrides == {NoName, "webservers"}
HostnameOverrides == {NoName, "web_1"}
HostConfigOverrides == {EmptyDict, [ansible_host |-> "10.0.0.9"]}
SourcesOverrides ==
    {EmptyDict, [databases |-> [hosts |-> [db_1 |-> None]]]}

\* The contexts of the translator: the node app, the node vm, and the
\* relationship from app to vm.
TranslateContexts ==
    {NodeCtx("app", "app_1"), NodeCtx("vm", "vm_1"),
     RelationshipCtx("app", "app_1", "vm", "vm_1")}

\* A lifecycle operation translates its context into a source document.
GetSourceConfigFromCtx(_ctx, group_name, hostname, host_config, sources) ==
    /\ call' = [op |-> "get_source_config_from_ctx", ctx |-> _ctx,
                group_name |-> group_name, hostname |-> hostname,
                host_config |-> host_config, sources |-> sources]
    /\ outcome' = get_source_config_from_ctx(_ctx, group_name, hostname,
                                             host_config, sources, topology,
                                             runtime_properties)
    /\ UNCHANGED <<runtime_properties, topology, history, trace, files,
                   uuid_counter, environ, environ_before>>

\* Any types of app and vm, any deployment groups over them, with or without
\* a REST client; app_1 holds no sources, an empty document or a document.
InitTranslate ==
    /\ \E app_type \in NodeTypes, vm_type \in NodeTypes,
          groups \in DeploymentGroups(DeploymentGroupNames, {"app", "vm"}),
          rest_client \in BOOLEAN :
        topology =
            [nodes |-> [n \in NodeNames |->
                          Node(n, CASE n = "app" -> app_type
                                    [] n = "vm" -> vm_type
                                    [] OTHER -> "custom.Server")],
             groups |-> groups,
             rest_client |-> rest_client,
             inputs |-> EmptyDict]
    /\ \E persisted \in
            {EmptyDict, [sources |-> EmptyDict],
             [sources |-> [webservers |-> [hosts |-> [vm_1 |-> None]]]]} :
        runtime_properties =
            [i \in SourceInstances |->
                CASE i = "app_1" -> persisted
                  [] i = "vm_1" -> [ip |-> "10.0.0.7"]
                  [] OTHER -> EmptyDict]
    /\ call = [op |-> "init"]
    /\ outcome = [raised |-> NoError, derived |-> FALSE,
                  returned |-> EmptyDict, group_name |-> NoName,
                  hostname |-> NoName, host_config |-> EmptyDict]
    /\ history = <<>>
    /\ trace = <<>>
    /\ files = Unused
    /\ uuid_counter = 0
    /\ environ = Unused
    /\ environ_before = Unused

NextTranslate ==
    \E _ctx \in TranslateContexts, group_name \in GroupNameOverrides,
       hostname \in HostnameOverrides, host_config \in HostConfigOverrides,
       sources \in SourcesOverrides :
        GetSourceConfigFromCtx(_ctx, group_name, hostname, host_config,
                               sources)

SpecTranslate == InitTranslate /\ [][NextTranslate]_vars

\* The translator has run.
Translated == call.op = "get_source_config_from_ctx"

\* The side of the call's context whose identity is derived: the target of
\* a relationship, the node itself otherwise.
IdentityNode ==
    IF call.ctx.type = RELATIONSHIP_INSTANCE
    THEN call.ctx.target.node
    ELSE call.ctx.node

IdentityInstance ==
    IF call.ctx.type = RELATIONSHIP_INSTANCE
    THEN call.ctx.target.instance
    ELSE call.ctx.instance

IdentityIsCompute == COMPUTE \in topology.nodes[IdentityNode].type_hierarchy

\* The instance of the call holds persisted sources.
HasPersistedSources ==
    /\ call.ctx.type = NODE_INSTANCE
    /\ Get(runtime_properties[call.ctx.instance], SOURCES, EmptyDict)
           # EmptyDict

\* C6: with no group_name, no hostname and no persisted sources, a node
\* that is not compute-capable makes the call raise the non-recoverable
\* error and return no document; a compute-capable node, or a group_name or
\* hostname, makes it raise nothing, and a name it resolves is the caller's
\* or else the node type (group) and the instance id (hostname).
C6_InvalidTopology ==
    Translated =>
        /\ (/\ call.group_name = NoName /\ call.hostname = NoName
            /\ ~HasPersistedSources /\ ~IdentityIsCompute) =>
                /\ outcome.raised = NonRecoverableError
                /\ ~outcome.derived /\ outcome.returned = EmptyDict
        /\ (IdentityIsCompute \/ call.group_name # NoName
                \/ call.hostname # NoName) =>
                /\ outcome.raised = NoError
                /\ outcome.derived =>
                    /\ outcome.group_name =
                        IF call.group_name # NoName THEN call.group_name
                        ELSE topology.nodes[IdentityNode].type
                    /\ outcome.hostname =
                        IF call.hostname # NoName THEN call.hostname
                        ELSE IdentityInstance

\* C6 witness: a relationship whose target is not compute-capable, with a
\* hostname and no group_name: no error, the group is the target's type.
C6_Witness ==
    /\ Translated
    /\ call.ctx.type = RELATIONSHIP_INSTANCE
    /\ ~IdentityIsCompute
    /\ call.group_name = NoName /\ call.hostname # NoName
    /\ outcome.raised = NoError /\ outcome.derived
    /\ outcome.group_name = "custom.App"
    /\ outcome.hostname = call.hostname

\* The deployment groups the query returns that list the node as a member.
MemberGroups ==
    IF topology.rest_client
    THEN {g \in DOMAIN topology.groups :
            IdentityNode \in topology.groups[g].members}
    ELSE {}

\* C7: the document of every call that derives a fragment has the group of
\* the resolved group_name with hosts exactly {hostname: host_config} and,
\* for every deployment group that lists the node, that group with hosts
\* {hostname: null}, whatever deployment groups there are.
C7_AssembledDocument ==
    (Translated /\ outcome.derived) =>
        /\ outcome.group_name \in DOMAIN outcome.returned
        /\ outcome.returned[outcome.group_name].hosts
               = (outcome.hostname :> outcome.host_config)
        /\ \A g \in MemberGroups :
            /\ g \in DOMAIN outcome.returned
            /\ outcome.returned[g].hosts = (outcome.hostname :> None)

----------------------------------------------------------------------------
(* The accumulator over the lifecycle of one source instance *)

\* get_remerged_config_sources(_ctx, kwargs) on the store rp: for a
\* relationship the target's fragment is translated and merged into the
\* source instance's document; for a node the translation is returned.
get_remerged_config_sources(_ctx, kwargs, topo, rp) ==
    IF _ctx.type = RELATIONSHIP_INSTANCE
    THEN LET new == get_source_config_from_ctx(
                        _ctx, Get(kwargs, "group_name", NoName),
                        Get(kwargs, "hostname", NoName),
                        Get(kwargs, "host_config", EmptyDict), EmptyDict,
                        topo, rp)
         IN  IF new.raised # NoError
             THEN [raised |-> new.raised, returned |-> EmptyDict,
                   runtime_properties |-> rp]
             ELSE LET merged == update_sources_from_target(new.returned,
                                                           _ctx, rp)
                  IN  [raised |-> NoError,
                       returned |-> AnsibleSource(merged.returned),
                       runtime_properties |-> merged.runtime_properties]
    ELSE LET r == get_source_config_from_ctx(_ctx, NoName, NoName, EmptyDict,
                                             EmptyDict, topo, rp)
         IN  [raised |-> r.raised, returned |-> r.returned,
              runtime_properties |-> rp]

\* The targets the source node app is related to: node and instance.
Targets == {[node |-> "vm", instance |-> "vm_1"],
            [node |-> "db", instance |-> "db_1"]}

\* The hostname override a relationship to the target may carry; the
\* overrides of different targets differ.
HostnameOverride(target) ==
    IF target.instance = "vm_1" THEN "web_a" ELSE "web_b"

\* The inputs a relationship to the target may carry.
TargetInputs(target) ==
    {[group_name |-> g, hostname |-> h] :
        g \in GroupNameOverrides, h \in {NoName, HostnameOverride(target)}}

\* The context of the relationship from app_1 to the target.
TargetCtx(target) ==
    RelationshipCtx("app", "app_1", target.node, target.instance)

\* The runtime properties the instances start with.
InitialProperties(i) ==
    CASE i = "vm_1" -> [ip |-> "10.0.0.7"]
      [] OTHER -> EmptyDict

\* The relationship to the target is established: its fragment is
\* translated and merged.
Establish(target) ==
    /\ Len(history) < MaxSourceOps
    /\ LET r == get_remerged_config_sources(
                    TargetCtx(target), topology.inputs[target.instance],
                    topology, runtime_properties)
       IN  /\ runtime_properties' = r.runtime_properties
           /\ outcome' = [raised |-> r.raised, returned |-> r.returned]
           /\ history' = Append(history,
                                [op |-> "establish",
                                 target |-> target.instance,
                                 raised |-> r.raised])
    /\ call' = [op |-> "get_remerged_config_sources",
                ctx |-> TargetCtx(target)]
    /\ trace' = Append(trace, PersistedSources(runtime_properties, "app_1"))
    /\ UNCHANGED <<topology, files, uuid_counter, environ, environ_before>>

\* The relationship to the target is unlinked: its fragment is translated
\* afresh and removed.
Unlink(target) ==
    /\ Len(history) < MaxSourceOps
    /\ LET inputs == topology.inputs[target.instance]
           new == get_source_config_from_ctx(
                      TargetCtx(target), inputs.group_name, inputs.hostname,
                      EmptyDict, EmptyDict, topology, runtime_properties)
           r == cleanup_sources_from_target(new.returned, TargetCtx(target),
                                            runtime_properties)
       IN  /\ runtime_properties' =
                IF new.raised # NoError THEN runtime_properties
                ELSE r.runtime_properties
           /\ outcome' =
                IF new.raised # NoError
                THEN [raised |-> new.raised, returned |-> EmptyDict]
                ELSE [raised |-> NoError, returned |-> r.returned]
           /\ history' = Append(history,
                                [op |-> "unlink", target |-> target.instance,
                                 raised |-> new.raised])
    /\ call' = [op |-> "cleanup_sources_from_target",
                ctx |-> TargetCtx(target)]
    /\ trace' = Append(trace, PersistedSources(runtime_properties, "app_1"))
    /\ UNCHANGED <<topology, files, uuid_counter, environ, environ_before>>

\* An operation of the node app reads the accumulated document.
RunOnNode ==
    /\ call.op # "node"
    /\ LET r == get_remerged_config_sources(NodeCtx("app", "app_1"),
                                            EmptyDict, topology,
                                            runtime_properties)
       IN  /\ runtime_properties' = r.runtime_properties
           /\ outcome' = [raised |-> r.raised, returned |-> r.returned]
    /\ call' = [op |-> "node", ctx |-> NodeCtx("app", "app_1")]
    /\ UNCHANGED <<topology, history, trace, files, uuid_counter, environ,
                   environ_before>>

\* The source instance holds no document; the targets have any types and
\* inputs, and the deployment any group named as the callers' group_name.
InitLifecycle ==
    /\ \E vm_type \in NodeTypes, db_type \in NodeTypes,
          groups \in DeploymentGroups({"webservers"}, {"vm", "db"}),
          vm_inputs \in TargetInputs([node |-> "vm", instance |-> "vm_1"]),
          db_inputs \in TargetInputs([node |-> "db", instance |-> "db_1"]) :
        topology =
            [nodes |-> [n \in NodeNames |->
                          Node(n, CASE n = "vm" -> vm_type
                                    [] n = "db" -> db_type
                                    [] OTHER -> "custom.App")],
             groups |-> groups,
             rest_client |-> TRUE,
             inputs |-> [vm_1 |-> vm_inputs, db_1 |-> db_inputs]]
    /\ runtime_properties = [i \in SourceInstances |-> InitialProperties(i)]
    /\ call = [op |-> "init"]
    /\ outcome = [raised |-> NoError, returned |-> EmptyDict]
    /\ history = <<>>
    /\ trace = <<>>
    /\ files = Unused
    /\ uuid_counter = 0
    /\ environ = Unused
    /\ environ_before = Unused

NextLifecycle ==
    \/ \E target \in Targets : Establish(target)
    \/ \E target \in Targets : Unlink(target)
    \/ RunOnNode

SpecLifecycle == InitLifecycle /\ [][NextLifecycle]_vars

\* The hostname the relationship to the target resolves to.
HostnameOf(target) ==
    IF topology.inputs[target.instance].hostname # NoName
    THEN topology.inputs[target.instance].hostname
    ELSE target.instance

\* The last operation of the history on the target established it.
Established(target) ==
    \E i \in 1..Len(history) :
        /\ history[i].target = target.instance
        /\ history[i].op = "establish"
        /\ history[i].raised = NoError
        /\ \A j \in (i + 1)..Len(history) :
            history[j].target # target.instance

\* The hosts a document lists, in any group.
ListedHosts(d) == UNION {DOMAIN d[g].hosts : g \in DOMAIN d}

\* C10: after any sequence of establish and unlink operations the source
\* instance's document lists as hosts exactly the targets established and
\* not unlinked since; the operations write only the 'sources' property of
\* the source instance and leave the targets' runtime properties alone.
C10_AccumulatedHosts ==
    /\ ListedHosts(PersistedSources(runtime_properties, "app_1"))
           = {HostnameOf(t) : t \in {u \in Targets : Established(u)}}
    /\ DOMAIN runtime_properties["app_1"] \subseteq {SOURCES}
    /\ \A t \in Targets :
        runtime_properties[t.instance] = InitialProperties(t.instance)

\* C10 witness: both targets were established, one was unlinked, and the
\* document lists the other one only.
C10_Witness ==
    /\ Len(history) = 3
    /\ history[1].op = "establish" /\ history[1].raised = NoError
    /\ history[2].op = "establish" /\ history[2].raised = NoError
    /\ history[2].target # history[1].target
    /\ history[3].op = "unlink" /\ history[3].raised = NoError
    /\ history[3].target = history[1].target
    /\ Cardinality(ListedHosts(PersistedSources(runtime_properties,
                                                "app_1"))) = 1

====
